---- MODULE Spec2Model ----
(***************************************************************************)
(* Feature selection for molecular descriptors (playground.ipynb):         *)
(*   - evaluate_k_means_silhouette, the fitness evaluator;                 *)
(*   - drop_correlated_features, the correlation pruning loop;             *)
(*   - genetic_algorithm, the generational loop built on the DEAP toolbox  *)
(*     that get_toolbox registers.                                         *)
(* Scores are silhouette coefficients in hundredths (-100 .. 100), so the  *)
(* penalty -1.0 of the evaluator is -100.  A DEAP fitness is its tuple of  *)
(* values: <<>> while it is invalid, <<v>> once it is evaluated.           *)
(***************************************************************************)
EXTENDS Integers, Sequences, FiniteSets

VARIABLES
    pc,                     \* position of the running function
    \* genetic_algorithm
    toolbox,                \* what get_toolbox registered
    population,
    best_dim, best_fit,
    gen, gens_without_progress,
    best_solution,          \* <<>> until genetic_algorithm returns, then <<individual>>
    max_fit,                \* history: highest fit recorded by a generation, as a fitness tuple
    \* evaluate_k_means_silhouette called on its own
    individual, descriptors, final_dim,
    values,                 \* <<>> before the call, then <<the returned tuple>>
    selected_descriptors,   \* the slices of the matrix the call took
    \* drop_correlated_features
    data_frame,             \* the table: its column names, in table order
    correlation,            \* |Spearman| of every pair of columns of the loaded table
    sorted_scores,          \* rows [feature, score] of the score table
    tolerance,
    flagged_feature_names,
    iterations,             \* history: iterations of the while loop in the current call
    calls,                  \* history: calls of drop_correlated_features so far
    previous_input,         \* history: the table the current call received
    \* toolbox.population: tools.initRepeat(list, toolbox.individual, n)
    registered,             \* size and final_dim registered for create_individual
    n_individuals,          \* n: how many individuals the call builds
    container               \* the individuals built so far

ga_vars == <<toolbox, population, best_dim, best_fit, gen, gens_without_progress,
             best_solution, max_fit>>
eval_vars == <<individual, descriptors, final_dim, values, selected_descriptors>>
prune_vars == <<data_frame, correlation, sorted_scores, tolerance,
                flagged_feature_names, iterations, calls, previous_input>>
create_vars == <<registered, n_individuals, container>>
vars == <<pc, ga_vars, eval_vars, prune_vars, create_vars>>

----------------------------------------------------------------------------
(* Bounds of the model and constants of the program.                       *)

\* The configurations of the runs of genetic_algorithm.  They are kept this
\* small because every run is followed through the 100 stagnant generations
\* that end it.
PopSizes == {1, 2}      \* population_size
IndSizes == {2}         \* final_descriptors.shape[1], the length of a mask
FinalDims == {1, 2}     \* final_dimensionality
EvalSize == 2           \* length of the masks the evaluator is called on by itself
MaxProgressGen == 2     \* progress (a reset of the counter) is followed in generations 1 .. MaxProgressGen
MaxCols == 3            \* columns of the table that reaches drop_correlated_features
MaxSize == 3            \* longest mask create_individual is called for
MaxFinalDim == 3        \* most index draws of create_individual
Repeats == {0, 1, 2}    \* n of toolbox.population: pop_size at the start, len(population) // 2 in a generation
MaxCalls == 2           \* calls of drop_correlated_features, each on the table the last one returned
StagnationLimit == 100  \* while gens_without_progress < 100
TournSize == 3          \* tools.selTournament, tournsize=3
Penalty == -100         \* return -1.,
LowScore == 0
HighScore == 50
ScoreValues == {LowScore, HighScore}
LowCorrelation == 65    \* |Spearman| in hundredths
HighCorrelation == 75
CorrelationThreshold == 70  \* correlation_threshold = .7
CorrelationValues == {LowCorrelation, HighCorrelation}
Tolerances == {LowCorrelation, CorrelationThreshold, HighCorrelation}

----------------------------------------------------------------------------
(* Individuals and fitness.                                                *)

Masks(size) == [1..size -> BOOLEAN]

\* individual.sum() / np.where(individual == 1)[0].size
Sum(genes) == Cardinality({i \in DOMAIN genes : genes[i]})

\* creator.Individual(array): the genes and an invalid fitness
Individual(genes) == [genes |-> genes, fitness |-> <<>>]

\* base.Fitness comparison: the tuples of (weighted) values compare
\* lexicographically, so an invalid fitness () is below every valid one.
FitnessLE(a, b) == IF a = <<>> THEN TRUE ELSE IF b = <<>> THEN FALSE ELSE a[1] <= b[1]
FitnessGT(a, b) == ~FitnessLE(a, b)

----------------------------------------------------------------------------
(* Fitness evaluator.                                                      *)

\* descriptors[:, individual]: the columns of the matrix the mask selects.
\* The matrix is represented by what the clustering primitive observes of
\* it: for every selection of columns, the silhouette of its 2-means
\* clustering.
SliceColumns(matrix, mask) == [columns |-> mask, silhouette |-> matrix[mask]]

\* metrics.silhouette_score(data, KMeans(n_clusters=2).fit(data).labels_)
GetSilhouetteScore(frame) == frame.silhouette

\* The call of evaluate_k_means_silhouette: the returned tuple and the
\* slices of the matrix it took.
EvaluateMismatchBelow(ind, matrix, dim) ==
    IF Sum(ind) < dim
    THEN [values |-> <<Penalty>>, sliced |-> <<>>]
    ELSE LET selected == SliceColumns(matrix, ind)
         IN  [values |-> <<GetSilhouetteScore(selected)>>, sliced |-> <<selected>>]

evaluate_k_means_silhouette(ind, matrix, dim) ==
    IF Sum(ind) # dim
    THEN [values |-> <<Penalty>>, sliced |-> <<>>]
    ELSE LET selected == SliceColumns(matrix, ind)
         IN  [values |-> <<GetSilhouetteScore(selected)>>, sliced |-> <<selected>>]

----------------------------------------------------------------------------
(* Toolbox.                                                                *)

\* toolbox.register("evaluate", evaluate_k_means_silhouette, descriptors=..., final_dim=...)
\* is the evaluator as a function of the individual alone.
get_toolbox(matrix, dim, ind_size, pop_size) ==
    [ final_dim |-> dim,
      ind_size  |-> ind_size,
      pop_size  |-> pop_size,
      evaluate  |-> [m \in Masks(ind_size) |->
                        evaluate_k_means_silhouette(m, matrix, dim).values] ]

\* a slice array[: index + 1] in place of the index array
CreateIndividualThrough(size, dim, random_indices) ==
    Individual([i \in 1..size |-> \E d \in 1..dim : random_indices[d] >= i - 1])

\* create_individual: final_dim index draws in 0 .. size-1 (np.random.randint),
\* set to True in a zero array; equal draws collapse.
create_individual(size, dim, random_indices) ==
    Individual([i \in 1..size |-> \E d \in 1..dim : random_indices[d] = i - 1])

CreatedIndividuals(size, dim) ==
    {create_individual(size, dim, r) : r \in [1..dim -> 0..(size - 1)]}

\* toolbox.population(n=n): tools.initRepeat(list, toolbox.individual, n)
Populations(tb, n) ==
    IF n = 0 THEN {<<>>} ELSE [1..n -> CreatedIndividuals(tb.ind_size, tb.final_dim)]

----------------------------------------------------------------------------
(* Selection.                                                              *)

\* max(aspirants, key=attrgetter("fitness")): the first of the greatest
RECURSIVE PyMaxFrom(_, _, _)
PyMaxFrom(aspirants, i, cur) ==
    IF i > Len(aspirants) THEN cur
    ELSE PyMaxFrom(aspirants, i + 1,
                   IF FitnessGT(aspirants[i].fitness, cur.fitness) THEN aspirants[i] ELSE cur)

PyMax(aspirants) == PyMaxFrom(aspirants, 2, aspirants[1])

\* one tournament: the aspirants are drawn with random.choice (with replacement)
Tournament(individuals, draws) ==
    PyMax([j \in 1..TournSize |-> individuals[draws[j]]])

TournamentWinners(individuals) ==
    {Tournament(individuals, draws) : draws \in [1..TournSize -> 1..Len(individuals)]}

\* tools.selTournament(individuals, k, tournsize=3): every list it can return
selTournament(individuals, k) ==
    IF k = 0 THEN {<<>>} ELSE [1..k -> TournamentWinners(individuals)]

\* tools.selBest(individuals, k=1)[0]: sorted by fitness, descending and stable,
\* so the first individual of the greatest fitness
selBest(individuals) ==
    LET top(i) == \A j \in 1..Len(individuals) :
                      FitnessLE(individuals[j].fitness, individuals[i].fitness)
        first == CHOOSE i \in 1..Len(individuals) :
                      top(i) /\ \A j \in 1..(i - 1) : ~top(j)
    IN  individuals[first]

----------------------------------------------------------------------------
(* Variation: algorithms.varAnd(offspring, toolbox, cxpb=0.5, mutpb=0.2).  *)

\* p[ind[i]] = i for i in range(size), on a list of zeros indexed by a
\* boolean gene: the last position (from 0) holding the value, 0 if none
LastPosition(genes, v) ==
    LET at == {i \in DOMAIN genes : genes[i] = v}
    IN  IF at = {} THEN 0 ELSE (CHOOSE i \in at : \A j \in at : j <= i) - 1

\* the loop of tools.cxPartialyMatched over range(cxpoint1, cxpoint2)
RECURSIVE PMXLoop(_, _, _, _, _, _)
PMXLoop(g1, g2, p1, p2, i, stop) ==
    IF i >= stop THEN <<g1, g2>>
    ELSE LET temp1 == g1[i + 1]
             temp2 == g2[i + 1]
             g1a == [g1 EXCEPT ![i + 1] = temp2]
             g1b == [g1a EXCEPT ![p1[temp2] + 1] = temp1]
             g2a == [g2 EXCEPT ![i + 1] = temp1]
             g2b == [g2a EXCEPT ![p2[temp1] + 1] = temp2]
             p1n == [p1 EXCEPT ![temp1] = p1[temp2], ![temp2] = p1[temp1]]
             p2n == [p2 EXCEPT ![temp1] = p2[temp2], ![temp2] = p2[temp1]]
         IN  PMXLoop(g1b, g2b, p1n, p2n, i + 1, stop)

\* tools.cxPartialyMatched(ind1, ind2) with its two crossover points
cxPartialyMatched(g1, g2, cxpoint1, cxpoint2) ==
    PMXLoop(g1, g2,
            [v \in BOOLEAN |-> LastPosition(g1, v)],
            [v \in BOOLEAN |-> LastPosition(g2, v)],
            cxpoint1, cxpoint2)

\* every pair toolbox.mate can return: random.randint draws the two points,
\* ordered so that cxpoint1 < cxpoint2, both in 0 .. size
Mated(g1, g2) ==
    {cxPartialyMatched(g1, g2, pts[1], pts[2]) :
        pts \in {q \in (0..Len(g1)) \X (0..Len(g1)) : q[1] < q[2]}}

\* tools.mutFlipBit(individual, indpb=0.1): each bit flips on its own draw
mutFlipBit(genes, flips) == [i \in DOMAIN genes |-> IF i \in flips THEN ~genes[i] ELSE genes[i]]

\* the mating loop of varAnd, for i in range(1, len(offspring), 2): each pair
\* is mated when random.random() < cxpb, and then loses its fitness values
RECURSIVE MateFrom(_, _)
MateFrom(offspring, j) ==
    IF j + 1 > Len(offspring) THEN {offspring}
    ELSE LET mated == {[offspring EXCEPT ![j] = Individual(m[1]), ![j + 1] = Individual(m[2])] :
                          m \in Mated(offspring[j].genes, offspring[j + 1].genes)}
         IN  UNION {MateFrom(o, j + 2) : o \in {offspring} \cup mated}

\* the mutation loop of varAnd: each individual is mutated when
\* random.random() < mutpb, and then loses its fitness values
RECURSIVE MutateFrom(_, _)
MutateFrom(offspring, i) ==
    IF i > Len(offspring) THEN {offspring}
    ELSE LET mutated == {[offspring EXCEPT ![i] = Individual(mutFlipBit(offspring[i].genes, flips))] :
                            flips \in SUBSET (1..Len(offspring[i].genes))}
         IN  UNION {MutateFrom(o, i + 1) : o \in {offspring} \cup mutated}

\* every list varAnd can return for the (cloned) offspring
varAnd(offspring) == UNION {MutateFrom(o, 1) : o \in MateFrom(offspring, 1)}

----------------------------------------------------------------------------
(* genetic_algorithm.                                                      *)

\* values = toolbox.map(toolbox.evaluate, offspring), then each value is
\* assigned to its individual, in order
Evaluated(tb, offspring) ==
    [i \in 1..Len(offspring) |->
        [offspring[i] EXCEPT !.fitness = tb.evaluate[offspring[i].genes]]]

\* the offspring a generation can score: half the population by tournament,
\* half brand new, varied and evaluated
Offspring(tb, pop) ==
    UNION {{Evaluated(tb, v) : v \in varAnd(parents \o fresh)} :
              parents \in selTournament(pop, Len(pop) \div 2),
              fresh \in Populations(tb, Len(pop) \div 2)}

\* k of the replacement: toolbox.select(population + offspring, k=len(population))
ReplacementSizeOfPool(pop, offspring) == Len(pop) + Len(offspring)

ReplacementSize(pop, offspring) == Len(pop)

\* while gens_without_progress < 100
EvolvingOneMore(without_progress) == without_progress <= StagnationLimit

Evolving(without_progress) == without_progress < StagnationLimit

\* if dim == best_dim and fit == best_fit
NoProgressEither(dim, fit, recorded_dim, recorded_fit) == dim = recorded_dim \/ fit = recorded_fit

NoProgress(dim, fit, recorded_dim, recorded_fit) == dim = recorded_dim /\ fit = recorded_fit

\* the populations one pass of the loop can select: the replacement
\* tournament over population + offspring, for every offspring
NextPopulations(tb, pop) ==
    UNION {selTournament(pop \o offspring, ReplacementSize(pop, offspring)) :
              offspring \in Offspring(tb, pop)}

\* the matrices of the runs: the silhouette of every selection of final_dim
\* columns is drawn from ScoreValues (the other selections are never sliced)
Matrices(size, dim) ==
    {m \in [Masks(size) -> ScoreValues] :
        \A mask \in Masks(size) : Sum(mask) # dim => m[mask] = LowScore}

\* the toolbox with a fitness function that returns the same value for
\* every individual registered as "evaluate"
constant_toolbox(value, dim, ind_size, pop_size) ==
    [ final_dim |-> dim,
      ind_size  |-> ind_size,
      pop_size  |-> pop_size,
      evaluate  |-> [m \in Masks(ind_size) |-> <<value>>] ]

Toolboxes ==
    UNION {{get_toolbox(matrix, cfg[2], cfg[3], cfg[1]) : matrix \in Matrices(cfg[3], cfg[2])}
           \cup {constant_toolbox(value, cfg[2], cfg[3], cfg[1]) : value \in ScoreValues} :
              cfg \in PopSizes \X FinalDims \X IndSizes}

\* the individuals a population of the toolbox can hold: not evaluated, or
\* carrying the value of its evaluator
IndividualsOf(tb) ==
    {[genes |-> g, fitness |-> f] : g \in Masks(tb.ind_size),
                                    f \in {<<>>} \cup {tb.evaluate[h] : h \in Masks(tb.ind_size)}}

\* NextPopulations, tabulated once for every toolbox and population
NextPopulationsOf ==
    [arg \in UNION {{<<tb, pop>> : pop \in [1..tb.pop_size -> IndividualsOf(tb)]} :
                       tb \in Toolboxes} |->
        NextPopulations(arg[1], arg[2])]

GAIdle ==
    /\ toolbox = <<>> /\ population = <<>> /\ best_dim = 0 /\ best_fit = 0
    /\ gen = 0 /\ gens_without_progress = 0 /\ best_solution = <<>> /\ max_fit = <<>>

EvalIdle ==
    /\ individual = <<>> /\ descriptors = <<>> /\ final_dim = 0
    /\ values = <<>> /\ selected_descriptors = <<>>

PruneIdle ==
    /\ data_frame = <<>> /\ correlation = <<>> /\ sorted_scores = <<>> /\ tolerance = 0
    /\ flagged_feature_names = <<>> /\ iterations = 0 /\ calls = 0 /\ previous_input = <<>>

CreateIdle ==
    /\ registered = <<>> /\ n_individuals = 0 /\ container = <<>>

\* genetic_algorithm up to its loop: the initial population, not evaluated,
\* and the zeroed records
GAStart(tb) ==
    /\ pc = "while"
    /\ toolbox = tb
    /\ population \in Populations(tb, tb.pop_size)
    /\ best_dim = 0 /\ best_fit = 0
    /\ gen = 0 /\ gens_without_progress = 0
    /\ best_solution = <<>> /\ max_fit = <<>>

Init ==
    /\ \E pop_size \in PopSizes, dim \in FinalDims, ind_size \in IndSizes :
          \E matrix \in Matrices(ind_size, dim) :
              GAStart(get_toolbox(matrix, dim, ind_size, pop_size))
    /\ EvalIdle /\ PruneIdle /\ CreateIdle

ConstInit ==
    /\ \E pop_size \in PopSizes, dim \in FinalDims, ind_size \in IndSizes, value \in ScoreValues :
          GAStart(constant_toolbox(value, dim, ind_size, pop_size))
    /\ EvalIdle /\ PruneIdle /\ CreateIdle

\* one pass of the while loop
Generation ==
    /\ pc = "while"
    /\ Evolving(gens_without_progress)
    /\ \E selected \in NextPopulationsOf[<<toolbox, population>>] :
          LET best_ind == selBest(selected)
              dim == Sum(best_ind.genes)
          IN  /\ population' = selected
              /\ gen' = gen + 1
              /\ IF best_ind.fitness = <<>>
                 THEN \* best_ind[0].fitness.values[0] raises IndexError
                      /\ pc' = "IndexError"
                      /\ UNCHANGED <<best_dim, best_fit, gens_without_progress, max_fit>>
                 ELSE LET fit == best_ind.fitness[1]
                      IN  /\ pc' = "while"
                          /\ max_fit' = IF FitnessGT(<<fit>>, max_fit) THEN <<fit>> ELSE max_fit
                          /\ IF NoProgress(dim, fit, best_dim, best_fit)
                             THEN /\ gens_without_progress' = gens_without_progress + 1
                                  /\ UNCHANGED <<best_dim, best_fit>>
                             ELSE /\ gen < MaxProgressGen
                                  /\ best_dim' = dim
                                  /\ best_fit' = fit
                                  /\ gens_without_progress' = 0
    /\ UNCHANGED <<toolbox, best_solution, eval_vars, prune_vars, create_vars>>

\* return tools.selBest(population, k=1)[0]
Return ==
    /\ pc = "while"
    /\ ~Evolving(gens_without_progress)
    /\ best_solution' = <<selBest(population)>>
    /\ pc' = "done"
    /\ UNCHANGED <<toolbox, population, best_dim, best_fit, gen, gens_without_progress,
                   max_fit, eval_vars, prune_vars, create_vars>>

Next == Generation \/ Return

Spec == Init /\ [][Next]_vars

SpecConst == ConstInit /\ [][Next]_vars

----------------------------------------------------------------------------
(* evaluate_k_means_silhouette called on every mask, matrix and target.    *)

EvalInit ==
    /\ pc = "evaluate"
    /\ individual \in Masks(EvalSize)
    /\ descriptors \in [Masks(EvalSize) -> ScoreValues \cup {Penalty}]
    /\ final_dim \in 0..EvalSize
    /\ values = <<>>
    /\ selected_descriptors = <<>>
    /\ GAIdle /\ PruneIdle /\ CreateIdle

Evaluate ==
    /\ pc = "evaluate"
    /\ LET call == evaluate_k_means_silhouette(individual, descriptors, final_dim)
       IN  /\ values' = <<call.values>>
           /\ selected_descriptors' = call.sliced
    /\ pc' = "evaluated"
    /\ UNCHANGED <<individual, descriptors, final_dim, ga_vars, prune_vars, create_vars>>

EvalNext == Evaluate

SpecEval == EvalInit /\ [][EvalNext]_vars

----------------------------------------------------------------------------
(* drop_correlated_features.                                               *)

Range(seq) == {seq[i] : i \in DOMAIN seq}

\* data_frame.corr(method="spearman").abs() at two columns: pairwise, so the
\* same whatever other columns the table still has
Corr(matrix, a, b) == IF a = b THEN 100 ELSE IF a < b THEN matrix[<<a, b>>] ELSE matrix[<<b, a>>]

\* a mask that keeps only the first superdiagonal
GetCorrelatedFeatureNamesAdjacent(frame, matrix, tol) ==
    SelectSeq(frame, LAMBDA column :
        \E i \in DOMAIN frame, j \in DOMAIN frame :
            /\ frame[j] = column /\ i + 1 = j
            /\ Corr(matrix, frame[i], column) > tol)

\* __get_correlated_feature_names__: the columns, in table order, with an
\* entry above the tolerance in the strict upper triangle, that is with an
\* earlier column
GetCorrelatedFeatureNames(frame, matrix, tol) ==
    SelectSeq(frame, LAMBDA column :
        \E i \in DOMAIN frame, j \in DOMAIN frame :
            /\ frame[j] = column /\ i < j
            /\ Corr(matrix, frame[i], column) > tol)

\* sorted_scores.loc[labels, :]: the rows of the labels, in the order of
\* the labels
Loc(scores, labels) ==
    [i \in DOMAIN labels |-> CHOOSE row \in Range(scores) : row.feature = labels[i]]

\* sorted_scores.loc[flagged_feature_names, :].index.values[0]
WorstPerformingColumnName(scores, flagged) == Loc(scores, flagged)[1].feature

\* data_frame.drop(name, axis=1)
Drop(frame, name) == SelectSeq(frame, LAMBDA column : column # name)

\* scores.sort_values(by="Silhouette score"): ascending, ties in any order
IsSortedByScore(scores) ==
    \A i \in DOMAIN scores, j \in DOMAIN scores : i < j => scores[i].score <= scores[j].score

Permutations(n) == {f \in [1..n -> 1..n] : \A i \in 1..n, j \in 1..n : i # j => f[i] # f[j]}

SortedScoreTables(n) ==
    {t \in UNION {{[i \in 1..n |-> [feature |-> order[i], score |-> score[order[i]]]] :
                      order \in Permutations(n)} : score \in [1..n -> ScoreValues]} :
        IsSortedByScore(t)}

ColumnPairs(n) == {q \in (1..n) \X (1..n) : q[1] < q[2]}

PruneInit ==
    /\ pc = "call"
    /\ data_frame = [i \in 1..MaxCols |-> i]
    /\ correlation \in [ColumnPairs(MaxCols) -> CorrelationValues]
    /\ sorted_scores \in SortedScoreTables(MaxCols)
    /\ tolerance \in Tolerances
    /\ flagged_feature_names = <<>>
    /\ iterations = 0 /\ calls = 0 /\ previous_input = <<>>
    /\ GAIdle /\ EvalIdle /\ CreateIdle

\* drop_correlated_features up to its loop, on the loaded table or on the
\* table its last call returned
Call ==
    /\ pc \in {"call", "returned"}
    /\ calls < MaxCalls
    /\ calls' = calls + 1
    /\ previous_input' = data_frame
    /\ flagged_feature_names' = GetCorrelatedFeatureNames(data_frame, correlation, tolerance)
    /\ iterations' = 0
    /\ pc' = "loop"
    /\ UNCHANGED <<data_frame, correlation, sorted_scores, tolerance, ga_vars, eval_vars,
                   create_vars>>

\* one pass of while len(flagged_feature_names) > 0
Iterate ==
    /\ pc = "loop"
    /\ Len(flagged_feature_names) > 0
    /\ LET worst_performing_column_name ==
               WorstPerformingColumnName(sorted_scores, flagged_feature_names)
           reduced == Drop(data_frame, worst_performing_column_name)
       IN  /\ data_frame' = reduced
           /\ flagged_feature_names' = GetCorrelatedFeatureNames(reduced, correlation, tolerance)
    /\ iterations' = iterations + 1
    /\ UNCHANGED <<pc, correlation, sorted_scores, tolerance, calls, previous_input,
                   ga_vars, eval_vars, create_vars>>

\* return data_frame
PruneReturn ==
    /\ pc = "loop"
    /\ Len(flagged_feature_names) = 0
    /\ pc' = "returned"
    /\ UNCHANGED <<ga_vars, eval_vars, prune_vars, create_vars>>

PruneNext == Call \/ Iterate \/ PruneReturn

SpecPrune == PruneInit /\ [][PruneNext]_vars

----------------------------------------------------------------------------
(* toolbox.population(n=n) on its own: tools.initRepeat calls              *)
(* toolbox.individual, that is create_individual(size, final_dim=...),     *)
(* n times and collects the results in a list.                             *)

CreateInit ==
    /\ pc = "initRepeat"
    /\ registered \in [size : 1..MaxSize, final_dim : 1..MaxFinalDim]
    /\ n_individuals \in Repeats
    /\ container = <<>>
    /\ GAIdle /\ EvalIdle /\ PruneIdle

\* one call of toolbox.individual()
CreateIndividual ==
    /\ pc = "initRepeat"
    /\ Len(container) < n_individuals
    /\ \E random_indices \in [1..registered.final_dim -> 0..(registered.size - 1)] :
          container' = Append(container,
                              create_individual(registered.size, registered.final_dim,
                                                random_indices))
    /\ UNCHANGED <<pc, registered, n_individuals, ga_vars, eval_vars, prune_vars>>

\* the list is complete
CreateReturn ==
    /\ pc = "initRepeat"
    /\ Len(container) = n_individuals
    /\ pc' = "created"
    /\ UNCHANGED <<ga_vars, eval_vars, prune_vars, create_vars>>

CreateNext == CreateIndividual \/ CreateReturn

SpecCreate == CreateInit /\ [][CreateNext]_vars

----------------------------------------------------------------------------
(* Properties of the evaluator and of the pruning.                         *)

\* C1 (cardinality penalty): for a mask whose popcount differs from
\* final_dim the evaluator returns exactly (-1.0,) whatever the matrix
\* holds, and takes no slice of the matrix.
C1_CardinalityPenalty ==
    pc = "evaluated" /\ Sum(individual) # final_dim =>
        values = <<(<<Penalty>>)>> /\ selected_descriptors = <<>>

\* a penalised mask with more true positions than final_dim, on a matrix
\* whose columns at the mask score above the penalty
C1_Witness ==
    /\ pc = "evaluated" /\ Sum(individual) > final_dim
    /\ descriptors[individual] = HighScore /\ values = <<(<<Penalty>>)>>

NoPairAbove(frame, matrix, tol) ==
    \A a \in Range(frame), b \in Range(frame) : a # b => Corr(matrix, a, b) <= tol

\* C4 (pruning post-condition and idempotence): the returned table has no
\* pair of columns correlated above the tolerance, and a call on a returned
\* table flags no column, iterates zero times and returns it unchanged.
C4_PruningPostconditionIdempotent ==
    /\ pc = "returned" => NoPairAbove(data_frame, correlation, tolerance)
    /\ calls >= 2 /\ pc \in {"loop", "returned"} =>
           /\ flagged_feature_names = <<>>
           /\ iterations = 0
           /\ data_frame = previous_input

\* the second call has returned a table from which the first dropped columns
C4_Witness ==
    calls = 2 /\ pc = "returned" /\ Len(data_frame) < MaxCols - 1

ScoreOf(scores, name) == (CHOOSE row \in Range(scores) : row.feature = name).score

\* C5 (worst-first elimination): the column an iteration removes is a
\* flagged column with the lowest score among the flagged columns.
C5_WorstFirstElimination ==
    [][iterations' = iterations + 1 =>
          \A dropped \in Range(data_frame) \ Range(data_frame') :
              /\ dropped \in Range(flagged_feature_names)
              /\ \A f \in Range(flagged_feature_names) :
                     ScoreOf(sorted_scores, dropped) <= ScoreOf(sorted_scores, f)]_vars

----------------------------------------------------------------------------
(* Properties of genetic_algorithm.                                        *)

BestFitness(pop) == selBest(pop).fitness

AllValid(pop) == \A i \in DOMAIN pop : pop[i].fitness # <<>>

\* C2 (monotonic elitism): the best fitness of the population a generation
\* selects is never lower than the best fitness of the population the
\* generation before it selected (stated where both populations hold only
\* evaluated individuals).
C2_MonotonicElitism ==
    [][gen' = gen + 1 /\ AllValid(population) /\ AllValid(population') =>
          FitnessLE(BestFitness(population), BestFitness(population'))]_vars

\* C3 as stated (stagnation termination): with a constant fitness function
\* genetic_algorithm returns after exactly 101 generation steps.
C3_ExactlyOneHundredAndOne ==
    pc = "done" => gen = StagnationLimit + 1

\* C3 as amended: with a constant fitness function genetic_algorithm returns
\* only with the stagnation counter at exactly 100, so never after fewer
\* than 100 generation steps; the counter never exceeds the number of
\* generation steps.
C3_ReturnsOnlyAfterOneHundredStagnant ==
    /\ gens_without_progress <= gen
    /\ pc = "done" => gens_without_progress = StagnationLimit /\ gen >= StagnationLimit

\* a run that returns after 100 generations without progress and one more
C3_Witness ==
    pc = "done" /\ gen = StagnationLimit + 1 /\ gens_without_progress = StagnationLimit

\* C7 (fixed population size): the population always holds pop_size
\* individuals.
C7_FixedPopulationSize ==
    Len(population) = toolbox.pop_size

\* a second generation has replaced a population of more than one individual
C7_Witness ==
    gen >= 2 /\ toolbox.pop_size > 1 /\ Len(population) = toolbox.pop_size

\* C8 (valid fitness at replacement): in every generation step the current
\* population holds only individuals with a valid fitness, and the best
\* individual's fitness can be read.
C8_ValidFitnessAtReplacement ==
    [][gen' = gen + 1 => AllValid(population) /\ pc' # "IndexError"]_vars

C10_ReturnsBestFound ==
    pc = "done" => FitnessLE(max_fit, best_solution[1].fitness)

\* C11 (initial individuals): every individual create_individual builds is a
\* boolean vector of the registered length with at least 1 and at most
\* final_dim positions set, and it carries no fitness value.
C11_InitialIndividuals ==
    \A i \in 1..Len(container) :
        /\ container[i].genes \in [1..registered.size -> BOOLEAN]
        /\ Sum(container[i].genes) >= 1
        /\ Sum(container[i].genes) <= registered.final_dim
        /\ container[i].fitness = <<>>

\* a complete list holding an individual whose draws collapsed and one whose
\* draws were all different
C11_Witness ==
    /\ pc = "created"
    /\ \E i \in 1..Len(container) : Sum(container[i].genes) < registered.final_dim
    /\ \E i \in 1..Len(container) : Sum(container[i].genes) = registered.final_dim

====
